---- MODULE Spec2Model ----
(***************************************************************************)
(* Model of flexget/utils/database.py: the safe_pickle_synonym sanitizer   *)
(* (only_builtins and its setter), the with_session decorator, the         *)
(* pipe_list_synonym accessor, CaseInsensitiveWord and QualityComparator.  *)
(***************************************************************************)
EXTENDS Integers, Sequences, FiniteSets, TLC

VARIABLES
    entry,      \* safe_pickle_synonym: the value last handed to setter
    raw,        \* safe_pickle_synonym: the column behind the synonym
    outcome,    \* safe_pickle_synonym: how the last setter call ended
    pc,         \* with_session: the wrapper's position
    supplied,   \* with_session: how the caller passed a session, if at all
    trace,      \* with_session: what the current call did so far, in order
    ran_with,   \* with_session: the session the wrapped function ran with
    func_result, \* with_session: how the wrapped function ended
    pending,    \* with_session: the result or exception on its way out
    delivered,  \* with_session: what the caller got from the wrapper
    calls,      \* with_session: the number of calls made
    opened,     \* with_session: the number of sessions the wrapper created
    closed,     \* with_session: the number of sessions the wrapper closed
    attr,       \* pipe_list_synonym: the column behind the synonym
    assigned,   \* pipe_list_synonym: the value last handed to setter
    got,        \* pipe_list_synonym: what getter returned since then
    perr,       \* pipe_list_synonym: the exception of the last setter call
    w_text,     \* ignore_case_property: the text column
    w_other,    \* CaseInsensitiveWord: the right-hand side of the comparison
    w_op,       \* CaseInsensitiveWord: the comparison operator
    w_res,      \* CaseInsensitiveWord: the result of the comparison
    q_text,     \* quality_property: the text column holding the quality name
    q_other,    \* QualityComparator: the right-hand side of the comparison
    q_op,       \* QualityComparator: the comparison operator
    q_res       \* QualityComparator: the predicate's value on the row, or the exception

sanVars == <<entry, raw, outcome>>

sessVars == <<pc, supplied, trace, ran_with, func_result, pending, delivered,
              calls, opened, closed>>

pipeVars == <<attr, assigned, got, perr>>

wordVars == <<w_text, w_other, w_op, w_res>>

qualVars == <<q_text, q_other, q_op, q_res>>

vars == <<sanVars, sessVars, pipeVars, wordVars, qualVars>>

notSan == <<sessVars, pipeVars, wordVars, qualVars>>

notSess == <<sanVars, pipeVars, wordVars, qualVars>>

notPipe == <<sanVars, sessVars, wordVars, qualVars>>

notWord == <<sanVars, sessVars, pipeVars, qualVars>>

notQual == <<sanVars, sessVars, pipeVars, wordVars>>

(***************************************************************************)
(* Python values.  A value is a record [type, v]: type is the name of its  *)
(* runtime class, v its content (a sequence for list and tuple, a set for  *)
(* set, a function from keys to values for dict, <<>> for a scalar).       *)
(***************************************************************************)
MaxLen == 2

supported_types == <<"str", "unicode", "int", "float", "bool", "datetime">>

SubclassTypes == {"str_sub", "unicode_sub", "int_sub", "float_sub", "datetime_sub"}

OtherTypes == {"object", "NoneType"}

ContainerTypes == {"dict", "list", "tuple", "set"}

Range(s) == {s[i] : i \in DOMAIN s}

\* the classes a class inherits from, itself included (bool subclasses int)
Mro(t) ==
    CASE t = "str_sub"      -> {"str_sub", "str"}
      [] t = "unicode_sub"  -> {"unicode_sub", "unicode"}
      [] t = "int_sub"      -> {"int_sub", "int"}
      [] t = "float_sub"    -> {"float_sub", "float"}
      [] t = "datetime_sub" -> {"datetime_sub", "datetime"}
      [] t = "bool"         -> {"bool", "int"}
      [] OTHER              -> {t}

isinstance(item, t) == t \in Mro(item.type)

Scalar(t) == [type |-> t, v |-> <<>>]

None == Scalar("NoneType")

Return(val) == [err |-> "none", val |-> val]

Raise(e) == [err |-> e, val |-> None]

\* s_type(item): every supported constructor converts an instance of its own
\* subclass, except datetime, whose constructor takes year, month, day
Construct(s_type, item) ==
    IF s_type = "datetime" THEN Raise("TypeError")
    ELSE Return([type |-> s_type, v |-> item.v])

\* only_builtins without its final raise: the value falls through
UnsupportedPassed(item) == Return(item)

\* the exception raised at the end of only_builtins
Unsupported(item) == Raise("TypeError")

\* the exceptions the dict loop and the list/tuple/set loop swallow
DictCatches == {"TypeError"}

SeqCatches == {"ValueError"}

\* the for loop over supported_types, from index i on
RECURSIVE CastLoop(_, _)
CastLoop(item, i) ==
    IF i > Len(supported_types) THEN Unsupported(item)
    ELSE IF isinstance(item, supported_types[i])
         THEN Construct(supported_types[i], item)
         ELSE CastLoop(item, i + 1)

\* the list of results of a loop over rs that skips the caught exceptions
RECURSIVE Appended(_, _)
Appended(rs, catches) ==
    IF rs = <<>> THEN <<>>
    ELSE IF Head(rs).err = "none"
         THEN <<Head(rs).val>> \o Appended(Tail(rs), catches)
         ELSE Appended(Tail(rs), catches)

\* the first exception of rs the loop does not catch, "none" if there is none
RECURSIVE Escaping(_, _)
Escaping(rs, catches) ==
    IF rs = <<>> THEN "none"
    ELSE IF Head(rs).err \notin catches \cup {"none"} THEN Head(rs).err
         ELSE Escaping(Tail(rs), catches)

\* some enumeration of a finite set, the order a loop visits it in
RECURSIVE Enumerate(_)
Enumerate(S) ==
    IF S = {} THEN <<>>
    ELSE LET x == CHOOSE y \in S : TRUE IN <<x>> \o Enumerate(S \ {x})

RECURSIVE only_builtins(_)
only_builtins(item) ==
    IF item.type \in Range(supported_types) THEN Return(item)
    ELSE IF isinstance(item, "dict") THEN
        LET keys == Enumerate(DOMAIN item.v)
            rs   == [i \in DOMAIN keys |-> only_builtins(item.v[keys[i]])]
            kept == {keys[i] : i \in {j \in DOMAIN keys : rs[j].err = "none"}}
            esc  == Escaping(rs, DictCatches)
        IN IF esc # "none" THEN Raise(esc)
           ELSE Return([type |-> "dict",
                        v |-> [k \in kept |-> only_builtins(item.v[k]).val]])
    ELSE IF isinstance(item, "list") \/ isinstance(item, "tuple")
            \/ isinstance(item, "set") THEN
        LET elems  == IF isinstance(item, "set") THEN Enumerate(item.v) ELSE item.v
            rs     == [i \in DOMAIN elems |-> only_builtins(elems[i])]
            result == Appended(rs, SeqCatches)
            esc    == Escaping(rs, SeqCatches)
        IN IF esc # "none" THEN Raise(esc)
           ELSE IF isinstance(item, "list") THEN Return([type |-> "list", v |-> result])
           ELSE IF isinstance(item, "tuple") THEN Return([type |-> "tuple", v |-> result])
           ELSE Return([type |-> "set", v |-> Range(result)])
    ELSE CastLoop(item, 1)

(***************************************************************************)
(* The values handed to the setter.                                        *)
(***************************************************************************)
ScalarTypes == Range(supported_types) \cup SubclassTypes \cup OtherTypes

Scalars == {Scalar(t) : t \in ScalarTypes}

NestedScalars == {Scalar(t) : t \in {"int", "int_sub", "object"}}

DictKeys == {Scalar("str"), Scalar("int"), Scalar("object")}

SeqsUpTo(S, n) == UNION {[1..k -> S] : k \in 0..n}

SubsetsUpTo(S, n) == {x \in SUBSET S : Cardinality(x) <= n}

Hashable(x) == x.type \notin {"list", "dict", "set"}

\* the containers of at most n elements drawn from E
Containers(E, K, n) ==
    {[type |-> "list", v |-> s] : s \in SeqsUpTo(E, n)}
    \cup {[type |-> "tuple", v |-> s] : s \in SeqsUpTo(E, n)}
    \cup {[type |-> "set", v |-> s] : s \in SubsetsUpTo({x \in E : Hashable(x)}, n)}
    \cup {[type |-> "dict", v |-> f] : f \in UNION {[ks -> E] : ks \in SubsetsUpTo(K, n)}}

Inner == Containers(NestedScalars, {Scalar("str"), Scalar("object")}, 1)

Entries == Scalars \cup Containers(NestedScalars \cup Inner, DictKeys, MaxLen)

Reassigned == Scalars \cup Inner

(***************************************************************************)
(* Text.  A text is the sequence of its characters.                        *)
(***************************************************************************)
RECURSIVE lstrip(_, _)
lstrip(s, c) == IF s # <<>> /\ Head(s) = c THEN lstrip(Tail(s), c) ELSE s

RECURSIVE rstrip(_, _)
rstrip(s, c) ==
    IF s # <<>> /\ s[Len(s)] = c THEN rstrip(SubSeq(s, 1, Len(s) - 1), c) ELSE s

\* s.strip(c)
strip(s, c) == rstrip(lstrip(s, c), c)

\* s.split(c): the pieces between the occurrences of c, never an empty list
RECURSIVE split(_, _)
split(s, c) ==
    IF \A i \in DOMAIN s : s[i] # c THEN <<s>>
    ELSE LET i == CHOOSE j \in DOMAIN s : s[j] = c /\ \A k \in 1..(j - 1) : s[k] # c
         IN <<SubSeq(s, 1, i - 1)>> \o split(SubSeq(s, i + 1, Len(s)), c)

\* the parts run together, no separator between them
RECURSIVE join_nosep(_, _)
join_nosep(c, parts) ==
    IF parts = <<>> THEN <<>> ELSE parts[1] \o join_nosep(c, Tail(parts))

\* c.join(parts)
RECURSIVE join(_, _)
join(c, parts) ==
    IF parts = <<>> THEN <<>>
    ELSE IF Len(parts) = 1 THEN parts[1]
    ELSE parts[1] \o <<c>> \o join(c, Tail(parts))

\* the characters 'A'..'Z' have the codes 65..90, 'a'..'z' the codes 97..122
lower_char(c) == IF c >= 65 /\ c <= 90 THEN c + 32 ELSE c

\* s.lower()
lower(s) == [i \in DOMAIN s |-> lower_char(s[i])]

\* s < t on texts: by the first differing character, a proper prefix first
RECURSIVE TextLess(_, _)
TextLess(s, t) ==
    IF t = <<>> THEN FALSE
    ELSE IF s = <<>> THEN TRUE
    ELSE IF Head(s) # Head(t) THEN Head(s) < Head(t)
    ELSE TextLess(Tail(s), Tail(t))

\* the operator module's comparison functions
Operators == {"eq", "ne", "lt", "le", "gt", "ge"}

TextOp(op, x, y) ==
    CASE op = "eq" -> x = y
      [] op = "ne" -> x # y
      [] op = "lt" -> TextLess(x, y)
      [] op = "le" -> ~TextLess(y, x)
      [] op = "gt" -> TextLess(y, x)
      [] op = "ge" -> ~TextLess(x, y)

IntOp(op, x, y) ==
    CASE op = "eq" -> x = y
      [] op = "ne" -> x # y
      [] op = "lt" -> x < y
      [] op = "le" -> x <= y
      [] op = "gt" -> x > y
      [] op = "ge" -> x >= y

Bool(b) == IF b THEN "True" ELSE "False"

(***************************************************************************)
(* The state of each part before its first operation.                      *)
(***************************************************************************)
NoResult == [kind |-> "none", val |-> "none"]

SessionIdle ==
    /\ pc = "idle"
    /\ supplied = "absent"
    /\ trace = <<>>
    /\ ran_with = "nobody"
    /\ func_result = NoResult
    /\ pending = NoResult
    /\ delivered = NoResult
    /\ calls = 0
    /\ opened = 0
    /\ closed = 0

SanitizerIdle ==
    /\ entry = None
    /\ raw = None
    /\ outcome = "idle"

\* a value of the delimited-list attribute: None, a text or a list of texts
PyNone == [kind |-> "None", text |-> <<>>, parts |-> <<>>]

PyText(t) == [kind |-> "text", text |-> t, parts |-> <<>>]

PyList(ps) == [kind |-> "list", text |-> <<>>, parts |-> ps]

Unread == [kind |-> "unread", text |-> <<>>, parts |-> <<>>]

PipeIdle ==
    /\ attr = PyNone
    /\ assigned = Unread
    /\ got = Unread
    /\ perr = "none"

\* an operand of a comparison: a plain text or a CaseInsensitiveWord
Str(t) == [cls |-> "str", word |-> t]

WordIdle ==
    /\ w_text = <<>>
    /\ w_other = Str(<<>>)
    /\ w_op = "eq"
    /\ w_res = "unset"

\* the text column before any assignment
NULL == "NULL"

QualityIdle ==
    /\ q_text = NULL
    /\ q_other = [cls |-> "str", name |-> "", value |-> 0]
    /\ q_op = "eq"
    /\ q_res = "unset"

(***************************************************************************)
(* safe_pickle_synonym: setter, and the caller binding the next value.     *)
(***************************************************************************)
Init ==
    /\ entry \in Entries
    /\ raw = None
    /\ outcome = "idle"
    /\ SessionIdle
    /\ PipeIdle
    /\ WordIdle
    /\ QualityIdle

setter ==
    LET r == only_builtins(entry) IN
    /\ outcome \in {"idle", "bound"}
    /\ raw' = IF r.err = "none" THEN r.val ELSE raw
    /\ outcome' = IF r.err = "none" THEN "returned" ELSE r.err
    /\ UNCHANGED <<entry, notSan>>

Rebind ==
    /\ outcome \notin {"idle", "bound"}
    /\ entry' \in Reassigned
    /\ outcome' = "bound"
    /\ UNCHANGED <<raw, notSan>>

Next == setter \/ Rebind

Spec == Init /\ [][Next]_vars

(***************************************************************************)
(* Properties of the sanitizer.                                            *)
(***************************************************************************)
SetterRan == outcome \notin {"idle", "bound"}

IsContainer(x) == x.type \in ContainerTypes

\* neither a supported kind, nor a subclass of one, nor a container
IsUnsupported(x) ==
    Mro(x.type) \cap (Range(supported_types) \cup ContainerTypes) = {}

Children(x) ==
    CASE x.type = "dict" -> {x.v[k] : k \in DOMAIN x.v}
      [] x.type = "set"  -> x.v
      [] x.type \in {"list", "tuple"} -> Range(x.v)
      [] OTHER -> {}

RECURSIVE HasUnsupportedNested(_)
HasUnsupportedNested(x) ==
    \E c \in Children(x) : IsUnsupported(c) \/ HasUnsupportedNested(c)

BaseKind(t) == CHOOSE b \in Range(supported_types) : b \in Mro(t) /\ (t = b \/ t \notin Range(supported_types))

RECURSIVE KeptOf(_)
RECURSIVE Omitted(_)
\* the elements of a sequence that are not unsupported, in their order
KeptOf(s) ==
    IF s = <<>> THEN <<>>
    ELSE IF IsUnsupported(Head(s)) THEN KeptOf(Tail(s))
         ELSE <<Omitted(Head(s))>> \o KeptOf(Tail(s))

\* x without its unsupported nested values, everything else kept
Omitted(x) ==
    CASE x.type = "dict" ->
           [type |-> "dict",
            v |-> [k \in {j \in DOMAIN x.v : ~IsUnsupported(x.v[j])} |-> Omitted(x.v[k])]]
      [] x.type = "set" ->
           [type |-> "set", v |-> {Omitted(c) : c \in {d \in x.v : ~IsUnsupported(d)}}]
      [] x.type \in {"list", "tuple"} -> [type |-> x.type, v |-> KeptOf(x.v)]
      [] OTHER -> [type |-> BaseKind(x.type), v |-> x.v]

\* C1: sanitizing a container that holds an unsupported value at any depth
\* succeeds, and the result is the input without exactly the unsupported
\* values, the surviving sequence elements in their order.
C1_DropsExactlyUnsupported ==
    (SetterRan /\ IsContainer(entry) /\ HasUnsupportedNested(entry))
        => (outcome = "returned" /\ raw = Omitted(entry))

RECURSIVE IsSanitizedValue(_)
IsSanitizedValue(x) ==
    /\ x.type \in Range(supported_types) \cup ContainerTypes
    /\ x.type = "dict" => \A k \in DOMAIN x.v : k.type \in {"str", "unicode"}
    /\ \A c \in Children(x) : IsSanitizedValue(c)

\* C2: whatever was assigned through the setter, the column holds a tree of
\* supported kinds only, and every mapping in it has text keys only.
C2_StoredIsSanitized == (raw # None) => IsSanitizedValue(raw)

\* C3: a setter call with a top-level value of an unsupported kind raises
\* the unsupported-type error and leaves the column as it was.
C3_UnsupportedAbortsWrite ==
    [][(outcome' # outcome /\ outcome' # "bound" /\ IsUnsupported(entry))
         => (outcome' = "TypeError" /\ raw' = raw)]_vars

\* C3 witness: an unsupported top-level value was refused after an earlier
\* assignment had filled the column.
C3_Witness == SetterRan /\ IsUnsupported(entry) /\ outcome = "TypeError" /\ raw # None

\* C10: a value of a strict subclass of a supported primitive kind is
\* sanitized to the value of the exact base kind, whichever kind that is.
C10_SubclassCoerced ==
    (SetterRan /\ entry.type \in SubclassTypes)
        => (outcome = "returned" /\ raw = [type |-> BaseKind(entry.type), v |-> entry.v])

(***************************************************************************)
(* with_session.  The wrapper is followed statement by statement; trace    *)
(* lists, in order, the calls it made: Session(), func, commit, close.     *)
(***************************************************************************)
MaxCalls == 3

\* the ways a caller passes a session: not at all, session=None, as the
\* session keyword, or as a positional argument
Supplies == {"absent", "kw_none", "keyword", "positional"}

Results == {"r1", "r2"}

Errors == {"e1", "e2"}

\* the test on kwargs lost: a session is created whatever was passed
SessionAlwaysMissing(how) == TRUE

\* not kwargs.get('session')
SessionMissing(how) == how # "keyword"

InitSession == SessionIdle /\ SanitizerIdle /\ PipeIdle /\ WordIdle /\ QualityIdle

\* wrapper is entered: the test on kwargs and, if it passes, Session(...)
Call(how) ==
    /\ pc \in {"idle", "done"}
    /\ calls < MaxCalls
    /\ calls' = calls + 1
    /\ supplied' = how
    /\ trace' = IF SessionMissing(how) THEN <<"Session">> ELSE <<>>
    /\ pc' = IF SessionMissing(how) THEN "try" ELSE "else"
    /\ ran_with' = "nobody"
    /\ func_result' = NoResult
    /\ pending' = NoResult
    /\ delivered' = NoResult
    /\ opened' = IF SessionMissing(how) THEN opened + 1 ELSE opened
    /\ UNCHANGED <<closed, notSess>>

\* result = func(*args, **kwargs) returns r
FuncReturns(r) ==
    /\ pc = "try"
    /\ supplied # "positional"
    /\ trace' = Append(trace, "func")
    /\ ran_with' = "created"
    /\ func_result' = [kind |-> "returned", val |-> r]
    /\ pc' = "commit"
    /\ UNCHANGED <<supplied, pending, delivered, calls, opened, closed, notSess>>

\* func raises and no finally clause closes the session
FuncRaisesUnclosed(e) ==
    /\ pc = "try"
    /\ supplied # "positional"
    /\ trace' = Append(trace, "func")
    /\ ran_with' = "created"
    /\ func_result' = [kind |-> "raised", val |-> e]
    /\ pending' = [kind |-> "raised", val |-> e]
    /\ delivered' = [kind |-> "raised", val |-> e]
    /\ pc' = "done"
    /\ UNCHANGED <<supplied, calls, opened, closed, notSess>>

\* result = func(*args, **kwargs) raises e
FuncRaises(e) ==
    /\ pc = "try"
    /\ supplied # "positional"
    /\ trace' = Append(trace, "func")
    /\ ran_with' = "created"
    /\ func_result' = [kind |-> "raised", val |-> e]
    /\ pending' = [kind |-> "raised", val |-> e]
    /\ pc' = "finally"
    /\ UNCHANGED <<supplied, delivered, calls, opened, closed, notSess>>

\* func(*args, **kwargs) with the session both in args and in kwargs: the
\* call itself raises TypeError (multiple values for 'session')
FuncBindFails ==
    /\ pc = "try"
    /\ supplied = "positional"
    /\ pending' = [kind |-> "raised", val |-> "TypeError"]
    /\ pc' = "finally"
    /\ UNCHANGED <<supplied, trace, ran_with, func_result, delivered, calls, opened, closed, notSess>>

\* kwargs['session'].commit() returns; return result
CommitReturns ==
    /\ pc = "commit"
    /\ trace' = Append(trace, "commit")
    /\ pending' = func_result
    /\ pc' = "finally"
    /\ UNCHANGED <<supplied, ran_with, func_result, delivered, calls, opened, closed, notSess>>

\* kwargs['session'].commit() raises
CommitRaises ==
    /\ pc = "commit"
    /\ trace' = Append(trace, "commit")
    /\ pending' = [kind |-> "raised", val |-> "commit_error"]
    /\ pc' = "finally"
    /\ UNCHANGED <<supplied, ran_with, func_result, delivered, calls, opened, closed, notSess>>

\* finally: kwargs['session'].close(), then the return or the re-raise
Close ==
    /\ pc = "finally"
    /\ trace' = Append(trace, "close")
    /\ delivered' = pending
    /\ closed' = closed + 1
    /\ pc' = "done"
    /\ UNCHANGED <<supplied, ran_with, func_result, pending, calls, opened, notSess>>

\* else: return func(*args, **kwargs), func returning r
PassReturns(r) ==
    /\ pc = "else"
    /\ trace' = Append(trace, "func")
    /\ ran_with' = "callers"
    /\ func_result' = [kind |-> "returned", val |-> r]
    /\ delivered' = [kind |-> "returned", val |-> r]
    /\ pc' = "done"
    /\ UNCHANGED <<supplied, pending, calls, opened, closed, notSess>>

\* else: return func(*args, **kwargs), func raising e
PassRaises(e) ==
    /\ pc = "else"
    /\ trace' = Append(trace, "func")
    /\ ran_with' = "callers"
    /\ func_result' = [kind |-> "raised", val |-> e]
    /\ delivered' = [kind |-> "raised", val |-> e]
    /\ pc' = "done"
    /\ UNCHANGED <<supplied, pending, calls, opened, closed, notSess>>

NextSession ==
    \/ \E how \in Supplies : Call(how)
    \/ \E r \in Results : FuncReturns(r)
    \/ \E e \in Errors : FuncRaises(e)
    \/ FuncBindFails
    \/ CommitReturns
    \/ CommitRaises
    \/ Close
    \/ \E r \in Results : PassReturns(r)
    \/ \E e \in Errors : PassRaises(e)

SpecSession == InitSession /\ [][NextSession]_vars

Count(s, x) == Cardinality({i \in DOMAIN s : s[i] = x})

\* C4: called without a session, the wrapper opens one, closes it exactly
\* once on every way out, and commits exactly when func returned: after
\* func, before close, and never when func raised.
C4_CommitOnSuccessCloseAlways ==
    supplied \in {"absent", "kw_none"} =>
        /\ pc # "idle" => Count(trace, "Session") = 1
        /\ Count(trace, "close") <= 1
        /\ pc = "done" => closed = opened
        /\ func_result.kind = "raised" => Count(trace, "commit") = 0
        /\ pc = "done" =>
             trace = IF func_result.kind = "returned"
                     THEN <<"Session", "func", "commit", "close">>
                     ELSE <<"Session", "func", "close">>

\* C4 witness: commit raised and the call still ended with the session closed
C4_Witness ==
    /\ pc = "done"
    /\ supplied = "absent"
    /\ delivered = [kind |-> "raised", val |-> "commit_error"]
    /\ trace[Len(trace)] = "close"

HelperDidNothingExtra ==
    /\ Count(trace, "Session") = 0
    /\ Count(trace, "commit") = 0
    /\ Count(trace, "close") = 0
    /\ pc = "done" =>
         /\ trace = <<"func">>
         /\ ran_with = "callers"
         /\ delivered = func_result

\* C5 as stated: however the caller supplied the session, the wrapper opens
\* no session, never commits or closes, runs func with the caller's session
\* and hands its result or exception through.
C5_SuppliedAnyWay ==
    (pc # "idle" /\ supplied \in {"keyword", "positional"}) => HelperDidNothingExtra

\* C5 amended: the same, for a session supplied as the session keyword.
C5_SuppliedByKeyword ==
    (pc # "idle" /\ supplied = "keyword") => HelperDidNothingExtra

\* C5 witness: func raised with the caller's keyword session, and the caller got that exception
C5_Witness ==
    /\ pc = "done"
    /\ supplied = "keyword"
    /\ func_result.kind = "raised"
    /\ delivered = func_result

(***************************************************************************)
(* pipe_list_synonym.                                                      *)
(***************************************************************************)
MaxElemLen == 1

MaxListLen == 3

MaxRawLen == 3

PipeChars == {"a", "|"}

\* the elements of the lists assigned: texts without a separator, and the
\* separator alone
PipeElements == SeqsUpTo(PipeChars \ {"|"}, MaxElemLen) \cup {<<"|">>}

\* what callers hand to setter: None, a text, or a list of texts
PipeValues ==
    {PyNone}
    \cup {PyText(t) : t \in SeqsUpTo(PipeChars, MaxRawLen)}
    \cup {PyList(ps) : ps \in SeqsUpTo(PipeElements, MaxListLen)}

InitPipe == PipeIdle /\ SanitizerIdle /\ SessionIdle /\ WordIdle /\ QualityIdle

\* the value getter returns for the column a
getter_value(a) ==
    IF a.kind = "text" /\ a.text # <<>>
    THEN PyList(split(strip(a.text, "|"), "|"))
    ELSE PyNone

\* the column after setter(value); '|'.join(None) raises TypeError
setter_value(value) ==
    IF value.kind = "text" THEN Return(value)
    ELSE IF value.kind = "list" THEN Return(PyText(join("|", value.parts)))
    ELSE Raise("TypeError")

pipe_getter ==
    /\ got' = getter_value(attr)
    /\ UNCHANGED <<attr, assigned, perr, notPipe>>

pipe_setter(value) ==
    LET r == setter_value(value) IN
    /\ attr' = IF r.err = "none" THEN r.val ELSE attr
    /\ perr' = r.err
    /\ assigned' = value
    /\ got' = Unread
    /\ UNCHANGED notPipe

\* the caller assigns what getter just returned
WriteBack ==
    /\ got # Unread
    /\ pipe_setter(got)

NextPipe ==
    \/ \E value \in PipeValues : pipe_setter(value)
    \/ pipe_getter
    \/ WriteBack

SpecPipe == InitPipe /\ [][NextPipe]_vars

\* None or an empty list
IsEmptyEquivalent(x) == x.kind = "None" \/ (x.kind = "list" /\ x.parts = <<>>)

\* C8: getter returns the null/empty-equivalent when the column is null or
\* is empty once its leading and trailing separators are trimmed, and the
\* parts of the trimmed text otherwise.
C8_EmptyAfterTrimming ==
    got # Unread =>
        IF attr.kind = "None" \/ strip(attr.text, "|") = <<>>
        THEN IsEmptyEquivalent(got)
        ELSE got = PyList(split(strip(attr.text, "|"), "|"))

HasSeparator(t) == \E i \in DOMAIN t : t[i] = "|"

\* a list of texts without separators was assigned and then read
ListRoundTrip ==
    /\ got # Unread
    /\ assigned.kind = "list"
    /\ \A i \in DOMAIN assigned.parts : ~HasSeparator(assigned.parts[i])

\* C9 as stated: a list of separator-free texts, the empty list and empty
\* elements included, is read back as assigned.
C9_RoundTripAnyList ==
    ListRoundTrip =>
        \/ got = assigned
        \/ assigned.parts = <<>> /\ IsEmptyEquivalent(got)

\* C9 amended: a list of separator-free texts whose first and last elements
\* are not empty is read back as assigned, and the empty list as None.
C9_RoundTripTrimmedList ==
    ListRoundTrip =>
        IF assigned.parts = <<>> THEN got = PyNone
        ELSE (assigned.parts[1] # <<>> /\ assigned.parts[Len(assigned.parts)] # <<>>)
                 => got = assigned

\* C9 witness: a list with an empty element in the middle made the round trip
C9_Witness ==
    /\ ListRoundTrip
    /\ Len(assigned.parts) = 3
    /\ assigned.parts[1] # <<>>
    /\ assigned.parts[2] = <<>>
    /\ assigned.parts[3] # <<>>
    /\ got = assigned

(***************************************************************************)
(* CaseInsensitiveWord and ignore_case_property.                           *)
(***************************************************************************)
MaxWordLen == 2

\* 'B', 'a', 'b'
WordChars == {66, 97, 98}

Words == SeqsUpTo(WordChars, MaxWordLen)

InitWord == WordIdle /\ SanitizerIdle /\ SessionIdle /\ PipeIdle /\ QualityIdle

\* __init__ keeping the text as given
CaseInsensitiveWordRaw(word) == [cls |-> "CaseInsensitiveWord", word |-> word.word]

\* CaseInsensitiveWord.__init__ on a text or on another CaseInsensitiveWord
\* (the third branch, func.lower of a column reference, builds a deferred
\* expression and takes no concrete operand)
CaseInsensitiveWord(word) ==
    [cls |-> "CaseInsensitiveWord",
     word |-> IF word.cls = "str" THEN lower(word.word) ELSE word.word]

\* CaseInsensitiveWord.operate
word_operate(self, op, other) ==
    LET o == IF other.cls # "CaseInsensitiveWord" THEN CaseInsensitiveWord(other)
             ELSE other
    IN TextOp(op, self.word, o.word)

\* ignore_case_property.setter
ignore_case_setter(value) ==
    /\ w_text' = value
    /\ w_other' = Str(<<>>)
    /\ w_op' = "eq"
    /\ w_res' = "unset"
    /\ UNCHANGED notWord

\* ignore_case_property.getter, and the comparison of what it returns with
\* other
Compare(op, other) ==
    /\ w_op' = op
    /\ w_other' = other
    /\ w_res' = Bool(word_operate(CaseInsensitiveWord(Str(w_text)), op, other))
    /\ UNCHANGED <<w_text, notWord>>

NextWord ==
    \/ \E value \in Words : ignore_case_setter(value)
    \/ \E op \in Operators, b \in Words : Compare(op, Str(b))
    \/ \E op \in Operators, b \in Words : Compare(op, CaseInsensitiveWord(Str(b)))

SpecWord == InitWord /\ [][NextWord]_vars

\* the two characters are the same letter in either case, or the same character
SameLetter(c, d) ==
    \/ c = d
    \/ c >= 65 /\ c <= 90 /\ d = c + 32
    \/ d >= 65 /\ d <= 90 /\ c = d + 32

EqualIgnoringCase(s, t) ==
    Len(s) = Len(t) /\ \A i \in DOMAIN s : SameLetter(s[i], t[i])

\* the text b behind the right-hand side: the caller wrapped lower(b), and
\* lower is idempotent
OtherText == w_other.word

\* C7: CaseInsensitiveWord(a) op b is op(lower(a), lower(b)), for b plain or
\* wrapped; a and b that differ only in case compare equal.
C7_ComparesLowered ==
    w_res # "unset" =>
        /\ w_res = Bool(TextOp(w_op, lower(w_text), lower(OtherText)))
        /\ (w_op = "eq" /\ EqualIgnoringCase(w_text, OtherText)) => w_res = "True"
        /\ (w_op = "eq" /\ ~EqualIgnoringCase(w_text, OtherText)) => w_res = "False"

\* C7 witness: two texts that differ in case, the right one plain, compared equal
C7_Witness ==
    /\ w_res = "True"
    /\ w_op = "eq"
    /\ w_other.cls = "str"
    /\ w_text # w_other.word
    /\ w_text # <<>>
    /\ lower(w_text) # w_text

(***************************************************************************)
(* QualityComparator and quality_property.                                 *)
(***************************************************************************)
\* the quality registry: flexget.utils.qualities
qualities_all ==
    {[cls |-> "Quality", name |-> "sd", value |-> 1],
     [cls |-> "Quality", name |-> "hd", value |-> 2],
     [cls |-> "Quality", name |-> "1080p", value |-> 3]}

\* qualities.get(name, default)
qualities_get(name, default) ==
    IF \E q \in qualities_all : q.name = name
    THEN CHOOSE q \in qualities_all : q.name = name
    ELSE default

QStr(n) == [cls |-> "str", name |-> n, value |-> 0]

QFalse == [cls |-> "bool", name |-> "", value |-> 0]

QInt == [cls |-> "int", name |-> "", value |-> 5]

StoredNames == {"sd", "hd", "1080p", "xyz", ""}

InitQuality == QualityIdle /\ SanitizerIdle /\ SessionIdle /\ PipeIdle /\ WordIdle

\* a case expression none of whose branches matches
case_unmatched(column, whens, else_) == else_

\* the value of case(value=column, whens=whens, else_=else_) on a row
case(column, whens, else_) ==
    IF column \in DOMAIN whens THEN whens[column] ELSE else_

\* QualityComparator.operate, the predicate evaluated on the row's column
quality_operate(column, op, other) ==
    LET qual == qualities_get(other.name, QFalse)
        whens == [n \in {q.name : q \in qualities_all} |->
                    (CHOOSE q \in qualities_all : q.name = n).value]
    IN IF other.cls = "Quality"
       THEN Bool(IntOp(op, case(column, whens, 0), other.value))
       ELSE IF other.cls = "str"
       THEN IF qual # QFalse
            THEN Bool(IntOp(op, case(column, whens, 0), qual.value))
            ELSE "ValueError"
       ELSE "TypeError"

\* quality_property.setter: a text is stored as it is, a quality by its name
quality_setter(value) ==
    /\ q_text' = value.name
    /\ q_res' = "unset"
    /\ UNCHANGED <<q_other, q_op, notQual>>

\* a query compares the column with other
QualityCompare(op, other) ==
    /\ q_op' = op
    /\ q_other' = other
    /\ q_res' = quality_operate(q_text, op, other)
    /\ UNCHANGED <<q_text, notQual>>

NextQuality ==
    \/ \E n \in StoredNames : quality_setter(QStr(n))
    \/ \E q \in qualities_all : quality_setter(q)
    \/ \E op \in Operators, q \in qualities_all : QualityCompare(op, q)
    \/ \E op \in Operators, n \in StoredNames : QualityCompare(op, QStr(n))
    \/ \E op \in Operators : QualityCompare(op, QInt)

SpecQuality == InitQuality /\ [][NextQuality]_vars

Registered(n) == \E q \in qualities_all : q.name = n

\* the rank of a stored name: its registry rank, 0 when it is not registered
StoredRank(n) ==
    IF Registered(n) THEN (CHOOSE q \in qualities_all : q.name = n).value ELSE 0

\* C6: against a registered quality, given as an object or by name, the
\* predicate is op(rank of the stored name, rank of the quality), the rank of
\* an unregistered stored name being 0; it never fails on the stored name.
C6_ComparesRanks ==
    (q_res # "unset" /\ (q_other.cls = "Quality" \/ (q_other.cls = "str" /\ Registered(q_other.name))))
        => q_res = Bool(IntOp(q_op, StoredRank(q_text), StoredRank(q_other.name)))

\* C6 witness: an unregistered stored name ranked below a quality given by name
C6_Witness ==
    /\ q_text = "xyz"
    /\ q_other = QStr("sd")
    /\ q_op = "lt"
    /\ q_res = "True"

====
